---- MODULE Spec2Model ----
(***************************************************************************)
(* A model of spider_project/spider.py: the Spider class (URL validation   *)
(* and normalization, link and image extraction, image download with       *)
(* collision-free file names, the depth-bounded recursive crawl, and run). *)
(*                                                                         *)
(* Python strings are modelled as sequences of one-character strings, so   *)
(* that urlparse, urljoin, rstrip, basename and splitext are computed the  *)
(* way the library computes them.                                          *)
(***************************************************************************)
EXTENDS Integers, Sequences, FiniteSets, TLC

(***************************************************************************)
(* String helpers (Python str methods on sequences of characters).         *)
(***************************************************************************)

\* s[i:] of Python with a 1-based first index
Drop(s, i) == SubSeq(s, i, Len(s))

\* s[:i] of Python: the first i characters
Take(s, i) == SubSeq(s, 1, i)

\* str.find(c, start): the smallest 1-based index >= from holding c, 0 if none
Find(s, c, from) ==
    LET hits == {i \in from..Len(s) : s[i] = c}
    IN  IF hits = {} THEN 0 ELSE CHOOSE i \in hits : \A j \in hits : i <= j

\* str.rfind(c): the largest 1-based index holding c, 0 if none
RFind(s, c) ==
    LET hits == {i \in 1..Len(s) : s[i] = c}
    IN  IF hits = {} THEN 0 ELSE CHOOSE i \in hits : \A j \in hits : i >= j

Contains(s, c) == \E i \in 1..Len(s) : s[i] = c

StartsWith(s, p) == Len(s) >= Len(p) /\ Take(s, Len(p)) = p

EndsWith(s, p) == Len(s) >= Len(p) /\ Drop(s, Len(s) - Len(p) + 1) = p

\* str.rstrip('/')
RStripSlash(s) ==
    LET keep == {i \in 1..Len(s) : s[i] # "/"}
    IN  IF keep = {} THEN <<>>
        ELSE Take(s, CHOOSE i \in keep : \A j \in keep : i >= j)

\* str.strip(): whitespace is the blank character of the model
Strip(s) ==
    LET keep == {i \in 1..Len(s) : s[i] # " "}
    IN  IF keep = {} THEN <<>>
        ELSE SubSeq(s, CHOOSE i \in keep : \A j \in keep : i <= j,
                       CHOOSE i \in keep : \A j \in keep : i >= j)

UpperToLower ==
    [c \in {"A","B","C","D","E","F","G","H","I","J","K","L","M",
            "N","O","P","Q","R","S","T","U","V","W","X","Y","Z"} |->
        CASE c = "A" -> "a" [] c = "B" -> "b" [] c = "C" -> "c" [] c = "D" -> "d"
          [] c = "E" -> "e" [] c = "F" -> "f" [] c = "G" -> "g" [] c = "H" -> "h"
          [] c = "I" -> "i" [] c = "J" -> "j" [] c = "K" -> "k" [] c = "L" -> "l"
          [] c = "M" -> "m" [] c = "N" -> "n" [] c = "O" -> "o" [] c = "P" -> "p"
          [] c = "Q" -> "q" [] c = "R" -> "r" [] c = "S" -> "s" [] c = "T" -> "t"
          [] c = "U" -> "u" [] c = "V" -> "v" [] c = "W" -> "w" [] c = "X" -> "x"
          [] c = "Y" -> "y" [] c = "Z" -> "z"]

\* str.lower()
Lower(s) ==
    [i \in 1..Len(s) |-> IF s[i] \in DOMAIN UpperToLower THEN UpperToLower[s[i]] ELSE s[i]]

LowerLetters ==
    {"a","b","c","d","e","f","g","h","i","j","k","l","m",
     "n","o","p","q","r","s","t","u","v","w","x","y","z"}

Digits == {"0","1","2","3","4","5","6","7","8","9"}

\* urllib.parse.scheme_chars
scheme_chars == LowerLetters \cup DOMAIN UpperToLower \cup Digits \cup {"+", "-", "."}

\* str(n) for the counters the model reaches
Str(n) ==
    IF n < 10 THEN <<ToString(n)>>
    ELSE <<ToString(n \div 10), ToString(n % 10)>>

(***************************************************************************)
(* urllib.parse.  Each function is written as a chain of operators, one    *)
(* per step of the library code, every step handing its results on.        *)
(***************************************************************************)

\* The value that stands for a raised ValueError
ValueError == <<"ValueError">>

\* urllib.parse.uses_params, uses_relative and uses_netloc, restricted to
\* the schemes of the model
WebSchemes == {<<"h","t","t","p">>, <<"h","t","t","p","s">>, <<"f","t","p">>}

\* s up to the first c (all of s when c does not occur)
Before(s, c) == IF Find(s, c, 1) = 0 THEN s ELSE Take(s, Find(s, c, 1) - 1)

\* s after the first c (empty when c does not occur)
After(s, c) == IF Find(s, c, 1) = 0 THEN <<>> ELSE Drop(s, Find(s, c, 1) + 1)

\* urllib.parse._splitparams, given the position i of the ';' that splits
SplitAt(url, i) ==
    IF i = 0 THEN [path |-> url, params |-> <<>>]
    ELSE [path |-> Take(url, i - 1), params |-> Drop(url, i + 1)]

\* urllib.parse._splitparams: the first ';' after the last '/'
splitparams(url) ==
    SplitAt(url, IF Contains(url, "/") THEN Find(url, ";", RFind(url, "/"))
                 ELSE Find(url, ";", 1))

\* The parse result; a netloc with one bracket but not the other raises
Parsed(scheme, netloc, sp, query, fragment) ==
    [err      |-> Contains(netloc, "[") # Contains(netloc, "]"),
     scheme   |-> scheme,
     netloc   |-> netloc,
     path     |-> sp.path,
     params   |-> sp.params,
     query    |-> query,
     fragment |-> fragment]

\* urlparse: the params split, for the schemes in uses_params
ParseParams(scheme, netloc, rest, query, fragment) ==
    Parsed(scheme, netloc,
           IF scheme \in WebSchemes /\ Contains(rest, ";") THEN splitparams(rest)
           ELSE [path |-> rest, params |-> <<>>],
           query, fragment)

\* urlsplit: the query is what follows the first '?'
ParseQuery(scheme, netloc, rest, fragment) ==
    ParseParams(scheme, netloc, Before(rest, "?"), After(rest, "?"), fragment)

\* urlsplit: the fragment is what follows the first '#'
ParseFragment(scheme, netloc, rest) ==
    ParseQuery(scheme, netloc, Before(rest, "#"), After(rest, "#"))

\* urllib.parse._splitnetloc: the index of the first of '/', '?', '#' after
\* the leading "//", or one past the end
NetlocEnd(rest) ==
    LET delims == {i \in 3..Len(rest) : rest[i] \in {"/", "?", "#"}}
    IN  IF delims = {} THEN Len(rest) + 1
        ELSE CHOOSE i \in delims : \A j \in delims : i <= j

\* urlsplit: the netloc, present when the rest starts with "//"
ParseNetloc(scheme, rest) ==
    IF StartsWith(rest, <<"/", "/">>)
    THEN ParseFragment(scheme, SubSeq(rest, 3, NetlocEnd(rest) - 1), Drop(rest, NetlocEnd(rest)))
    ELSE ParseFragment(scheme, <<>>, rest)

\* urlsplit: whether what precedes the first ':' (at index colon) is a scheme
HasScheme(url, colon) ==
    /\ colon > 1
    /\ url[1] \in LowerLetters \cup DOMAIN UpperToLower
    /\ \A i \in 1..(colon - 1) : url[i] \in scheme_chars

\* urlsplit: the scheme, lower-cased, or the default
ParseScheme(url, default, colon) ==
    IF HasScheme(url, colon)
    THEN ParseNetloc(Lower(Take(url, colon - 1)), Drop(url, colon + 1))
    ELSE ParseNetloc(default, url)

\* urllib.parse.urlparse(url, scheme=default)
urlparse_d(url, default) == ParseScheme(url, default, Find(url, ":", 1))

\* urllib.parse.urlparse(url)
urlparse(url) == urlparse_d(url, <<>>)

\* urlunsplit: scheme, query and fragment around "//netloc/path"
Unsplit(p, body) ==
    (IF p.scheme # <<>> THEN p.scheme \o <<":">> ELSE <<>>)
    \o body
    \o (IF p.query # <<>> THEN <<"?">> \o p.query ELSE <<>>)
    \o (IF p.fragment # <<>> THEN <<"#">> \o p.fragment ELSE <<>>)

\* urlunsplit: the netloc is written when there is one, or for a scheme of
\* uses_netloc when the path does not start with "//"
UnsplitNetloc(p, url) ==
    Unsplit(p, IF p.netloc # <<>> \/ (p.scheme \in WebSchemes /\ ~StartsWith(url, <<"/", "/">>))
               THEN <<"/", "/">> \o p.netloc
                    \o (IF url # <<>> /\ url[1] # "/" THEN <<"/">> ELSE <<>>) \o url
               ELSE url)

\* urllib.parse.urlunparse
urlunparse(p) ==
    UnsplitNetloc(p, IF p.params # <<>> THEN p.path \o <<";">> \o p.params ELSE p.path)

\* urljoin: the path of url merged with the directory of the base path.  The
\* hrefs and srcs of the model contain no "." or ".." segment and no empty
\* inner segment, so the segment resolution loop leaves the merged path as
\* it is.
MergedPath(bpath, path) ==
    IF path # <<>> /\ path[1] = "/" THEN path
    ELSE Take(bpath, RFind(bpath, "/"))
         \o (IF RFind(bpath, "/") = 0 THEN <<"/">> ELSE <<>>) \o path

\* urljoin, with base parsed as b and url parsed as u
JoinParsed(url, b, u) ==
    IF u.err THEN ValueError
    ELSE IF u.scheme # b.scheme \/ u.scheme \notin WebSchemes THEN url
    ELSE IF u.netloc # <<>> THEN urlunparse(u)
    ELSE IF u.path = <<>> /\ u.params = <<>>
         THEN urlunparse([u EXCEPT !.netloc = b.netloc, !.path = b.path,
                                   !.params = b.params,
                                   !.query = IF u.query = <<>> THEN b.query ELSE u.query])
    ELSE urlunparse([u EXCEPT !.netloc = b.netloc, !.path = MergedPath(b.path, u.path)])

\* urljoin, with base parsed as b
JoinBase(url, b) ==
    IF b.err THEN ValueError ELSE JoinParsed(url, b, urlparse_d(url, b.scheme))

\* urllib.parse.urljoin(base, url)
urljoin(base, url) ==
    IF base = <<>> THEN url
    ELSE IF url = <<>> THEN base
    ELSE JoinBase(url, urlparse(base))

(***************************************************************************)
(* Spider.is_valid_url and Spider.normalize_url                            *)
(***************************************************************************)

HttpSchemes == {<<"h","t","t","p">>, <<"h","t","t","p","s">>}

\* all([parsed.scheme in ['http', 'https'], parsed.netloc]); a ValueError of
\* urlparse is caught and gives False
ValidParsed(parsed) ==
    /\ ~parsed.err
    /\ parsed.scheme \in HttpSchemes
    /\ parsed.netloc # <<>>

\* (variant: the scheme is not checked)
is_valid_url_any_scheme(url) == urlparse(url).netloc # <<>>

\* is_valid_url
is_valid_url(url) == ValidParsed(urlparse(url))

\* f"{parsed.scheme}://{parsed.netloc}{path}" with path = parsed.path.rstrip('/');
\* a ValueError of urlparse is not caught and propagates
NormalizedParsed(parsed) ==
    IF parsed.err THEN ValueError
    ELSE parsed.scheme \o <<":", "/", "/">> \o parsed.netloc \o RStripSlash(parsed.path)

\* normalize_url
normalize_url(url) == NormalizedParsed(urlparse(url))

(***************************************************************************)
(* os.path and mimetypes                                                   *)
(***************************************************************************)

\* os.path.basename: what follows the last '/'
basename(path) == Drop(path, RFind(path, "/") + 1)

\* os.path.splitext of a name without '/': the extension starts at the last
\* dot, unless only dots precede it
splitext(name) ==
    LET dot == RFind(name, ".")
    IN  IF dot > 0 /\ \E i \in 1..(dot - 1) : name[i] # "."
        THEN [root |-> Take(name, dot - 1), ext |-> Drop(name, dot)]
        ELSE [root |-> name, ext |-> <<>>]

CT_jpeg == <<"i","m","a","g","e","/","j","p","e","g">>
CT_png == <<"i","m","a","g","e","/","p","n","g">>
CT_gif == <<"i","m","a","g","e","/","g","i","f">>
CT_bmp == <<"i","m","a","g","e","/","b","m","p">>
CT_html == <<"t","e","x","t","/","h","t","m","l">>
CT_jpeg_charset == CT_jpeg \o <<";"," ","c","h","a","r","s","e","t","=","b","i","n","a","r","y">>
CT_PNG_upper == <<"I","M","A","G","E","/","P","N","G">>

\* The Content-Type headers a server of the model answers with
ContentTypes == {<<>>, CT_jpeg, CT_html, CT_jpeg_charset, CT_PNG_upper}

\* mimetypes.guess_extension: looks the lower-cased type up as it is (a
\* parameter such as "; charset=..." is not stripped); <<>> stands for None
guess_extension(ctype) ==
    LET t == Lower(ctype)
    IN  CASE t = CT_jpeg -> <<".","j","p","g">>
          [] t = CT_png  -> <<".","p","n","g">>
          [] t = CT_gif  -> <<".","g","i","f">>
          [] t = CT_bmp  -> <<".","b","m","p">>
          [] t = CT_html -> <<".","h","t","m","l">>
          [] OTHER -> <<>>

\* Python's "t in s" on strings
IsSubstring(t, s) ==
    \E i \in 1..(Len(s) - Len(t) + 1) : SubSeq(s, i, i + Len(t) - 1) = t

(***************************************************************************)
(* The web the spider runs against: a few small sites.  A site maps the    *)
(* URL that is requested to the anchors (href) and images (src) of the     *)
(* page, in document order.                                                *)
(***************************************************************************)

Host == <<"h","t","t","p",":","/","/","h">>
PA == Host \o <<"/","a">>
PB == Host \o <<"/","b">>
PC == Host \o <<"/","c">>
PD == Host \o <<"/","d">>

Javascript == <<"j","a","v","a","s","c","r","i","p","t",":">>
PhotoJpg == <<"p","h","o","t","o",".","j","p","g">>

Page(url, hrefs, srcs) == [url |-> url, hrefs |-> hrefs, srcs |-> srcs]

Sites ==
    [cycle   |-> {Page(PA, << <<"/","b">> >>, <<>>),
                  Page(PB, << PA >>, <<>>)},
     chain   |-> {Page(PA, << <<"/","b">> >>, <<>>),
                  Page(PB, << <<"/","c">> >>, <<>>),
                  Page(PC, << <<"/","d">> >>, <<>>),
                  Page(PD, <<>>, <<>>)},
     diamond |-> {Page(PA, << <<"/","b">>, <<"/","c">> >>, <<>>),
                  Page(PB, << <<"/","c">> >>, <<>>),
                  Page(PC, << <<"/","d">> >>, <<>>),
                  Page(PD, <<>>, <<>>)},
     forms   |-> {Page(PA, << <<"/","b","/">>, <<"/","b","#","f">>, <<"#","t","o","p">>,
                            Javascript \o <<"v","(",")">>, <<>>, <<" ","/","c"," ">>,
                            <<"/","b",";","/">>, <<"f","t","p",":","/","/","h","/","x">>,
                            <<"m",":","x">> >>, <<>>),
                  Page(PB, << <<"/","a","/">> >>, <<>>),
                  Page(PC, <<>>, <<>>)},
     broken  |-> {Page(PA, << <<"/","b">>, <<"h","t","t","p",":","/","/","[">> >>, <<>>),
                  Page(PB, <<>>, << <<"/","/","[">> >>)},
     gallery |-> {Page(PA, << <<"/","b">> >>,
                       << <<"/","p","/">> \o PhotoJpg, <<"/","q","/">> \o PhotoJpg, <<"/","e","/">> >>),
                  Page(PB, <<>>, << <<"/","i">>, <<" ">> >>)}]

SiteNames == DOMAIN Sites

\* The body of the page a successful GET of url returns (an empty document
\* for a URL the site does not know)
PageOf(site, url) ==
    IF \E pg \in Sites[site] : pg.url = url
    THEN CHOOSE pg \in Sites[site] : pg.url = url
    ELSE Page(url, <<>>, <<>>)

(***************************************************************************)
(* Spider.get_all_links, Spider.get_all_images, Spider.download_image as   *)
(* functions of their inputs and of the answers of the network and of the  *)
(* file system.                                                            *)
(***************************************************************************)

\* if self.is_valid_url(normalized_url): links.add(normalized_url)
LinkOfNormalized(normalized_url) ==
    IF normalized_url = ValueError THEN ValueError
    ELSE IF is_valid_url(normalized_url) THEN normalized_url
    ELSE <<>>

\* normalized_url = self.normalize_url(absolute_url)
LinkOfAbsolute(absolute_url) ==
    IF absolute_url = ValueError THEN ValueError
    ELSE LinkOfNormalized(normalize_url(absolute_url))

\* The two "continue" tests on the stripped href, then urljoin
LinkOfHref(base_url, href) ==
    IF StartsWith(href, <<"#">>) THEN <<>>
    ELSE IF StartsWith(href, Javascript) THEN <<>>
    ELSE LinkOfAbsolute(urljoin(base_url, href))

\* The loop body of get_all_links for one href: the link it adds, <<>> when
\* it adds none ("continue" or an invalid URL), ValueError when urljoin or
\* normalize_url raises
LinkOf(base_url, rawHref) == LinkOfHref(base_url, Strip(rawHref))

\* What get_all_links gives for the per-anchor results: [raised, links]
LinksResult(each) ==
    [raised |-> ValueError \in each,
     links  |-> each \ {<<>>, ValueError}]

\* get_all_links after a successful fetch
get_all_links(hrefs, base_url) ==
    LinksResult({LinkOf(base_url, hrefs[i]) : i \in 1..Len(hrefs)})

ImageExts == {<<".","j","p","g">>, <<".","j","p","e","g">>, <<".","p","n","g">>,
              <<".","g","i","f">>, <<".","b","m","p">>}

ImageTypes == {CT_jpeg, CT_png, CT_gif, CT_bmp}

\* The answers to a HEAD request: an exception, or a status and Content-Type
HeadResponses ==
    {[exc |-> TRUE, status |-> 0, ctype |-> <<>>]}
    \cup [exc : {FALSE}, status : {200, 404}, ctype : ContentTypes]

\* src = img['src'].strip(); "continue" when empty, else urljoin(url, src)
ImageUrlOfSrc(url, src) == IF src = <<>> THEN <<>> ELSE urljoin(url, src)

\* The absolute URL of one img src, <<>> when the src is skipped as empty,
\* ValueError when urljoin raises
ImageUrlOf(url, rawSrc) == ImageUrlOfSrc(url, Strip(rawSrc))

\* The absolute URLs of the img srcs of a page, in document order
AbsoluteSrcs(url, srcs) == [i \in 1..Len(srcs) |-> ImageUrlOf(url, srcs[i])]

\* Whether the lower-cased path of the URL ends with an image extension
HasImageExt(absolute_url) ==
    \E ext \in ImageExts : EndsWith(Lower(urlparse(absolute_url).path), ext)

\* The positions for which a HEAD request is issued if the loop gets there
ProbePositions(abs) ==
    {i \in 1..Len(abs) : abs[i] # <<>> /\ abs[i] # ValueError /\ ~HasImageExt(abs[i])}

\* The srcs of the page (by position) that need a HEAD request
NeedsProbe(url, srcs) == ProbePositions(AbsoluteSrcs(url, srcs))

\* (variant: the status code of the HEAD response is not looked at)
ProbeSaysImage_any_status(head) ==
    /\ ~head.exc
    /\ \E t \in ImageTypes : IsSubstring(t, Lower(head.ctype))

\* The classification of a HEAD response
ProbeSaysImage(head) ==
    /\ ~head.exc
    /\ head.status = 200
    /\ \E t \in ImageTypes : IsSubstring(t, Lower(head.ctype))

\* The positions whose urljoin raises
RaisingPositions(abs) == {i \in 1..Len(abs) : abs[i] = ValueError}

\* The last position the img loop completes: all of them, or the one before
\* the first whose urljoin raises
LastHandled(abs) ==
    IF RaisingPositions(abs) = {} THEN Len(abs)
    ELSE (CHOOSE i \in RaisingPositions(abs) : \A j \in RaisingPositions(abs) : i <= j) - 1

\* The img loop over positions 1..last: [raised, images, probed, nheads],
\* nheads being the number of HEAD requests issued
ImagesUpTo(abs, heads, last) ==
    [raised |-> last < Len(abs),
     images |-> {abs[i] : i \in {j \in 1..last :
                    /\ abs[j] # <<>>
                    /\ (HasImageExt(abs[j]) \/ ProbeSaysImage(heads[j]))}},
     probed |-> {abs[i] : i \in {j \in 1..last : j \in ProbePositions(abs)}},
     nheads |-> Cardinality({j \in 1..last : j \in ProbePositions(abs)})]

\* get_all_images after a successful fetch; heads gives the HEAD response for
\* each position that needs one
get_all_images(url, srcs, heads) ==
    ImagesUpTo(AbsoluteSrcs(url, srcs), heads, LastHandled(AbsoluteSrcs(url, srcs)))

\* The collision loop of download_image: filepath is the candidate path and
\* counter the next suffix; files are the names present in the directory
RECURSIVE ResolvePath(_, _, _, _)
ResolvePath(filename, filepath, counter, files) ==
    IF filepath \in files
    THEN ResolvePath(filename,
                     splitext(filename).root \o <<"_">> \o Str(counter) \o splitext(filename).ext,
                     counter + 1, files)
    ELSE filepath

\* (variant: the existence check is left out and the derived name is used)
FreePath_overwrite(filename, files) == filename

\* "Handle duplicates" of download_image: the path the file is written to
FreePath(filename, files) == ResolvePath(filename, filename, 1, files)

\* What the file system does with open(filepath, 'wb') and the writes
WriteOutcomes == {"ok", "openfail", "writefail"}

\* download_image returning without a file written
NotWritten(result, files) ==
    [result |-> result, name |-> <<>>, file |-> <<>>, files |-> files]

\* with open(filepath, 'wb') as f: ... ; a failure after the open leaves the
\* file behind
Written(filename, filepath, write, files) ==
    [result |-> IF write = "ok" THEN "ok" ELSE "writefail",
     name   |-> filename,
     file   |-> filepath,
     files  |-> files \cup {filepath}]

\* The collision loop and the write; open fails in a directory that does
\* not exist
DownloadTo(filename, write, dirExists, files) ==
    IF ~dirExists \/ write = "openfail" THEN NotWritten("openfail", files)
    ELSE Written(filename, FreePath(filename, files), write, files)

\* "Ensure filename has proper extension"
WithExtension(filename, ctype) ==
    IF splitext(filename).ext = <<>> THEN filename \o guess_extension(ctype)
    ELSE filename

\* if not filename.strip(): filename = f"image_{int(time.time())}".  The time
\* module is not imported, so evaluating time.time() raises NameError, which
\* the except clause of download_image catches.
DownloadNamed(filename, ctype, write, dirExists, files) ==
    IF Strip(filename) = <<>> THEN NotWritten("nameerror", files)
    ELSE DownloadTo(WithExtension(filename, ctype), write, dirExists, files)

\* filename = os.path.basename(urlparse(img_url).path)
DownloadParsed(parsed, ctype, write, dirExists, files) ==
    IF parsed.err THEN NotWritten("valueerror", files)
    ELSE DownloadNamed(basename(parsed.path), ctype, write, dirExists, files)

\* download_image.  getOk: whether get_page returns a response; ctype: its
\* Content-Type; write: what the file system does; dirExists and files: the
\* state of the download directory.  Returns the result, the derived file
\* name, the path written and the files of the directory.
download_image(img_url, getOk, ctype, write, dirExists, files) ==
    IF ~getOk THEN NotWritten("getfail", files)
    ELSE DownloadParsed(urlparse(img_url), ctype, write, dirExists, files)

(***************************************************************************)
(* The program state                                                       *)
(***************************************************************************)

VARIABLES
    args,           \* the parsed command line: [url, r, l, p]
    site,           \* the site the run crawls
    runpc,          \* "start", "crawling", "done", "crashed" ("idle": no run)
    download_path,  \* self.download_path
    max_depth,      \* the max_depth passed to crawl
    visited,        \* self.visited
    stack,          \* the call stack of crawl, innermost call last
    fs,             \* the file system: existing directory -> names of its files
    crawled,        \* the "Crawling: <url> (Depth: <d>)" lines printed, in order
    fetched,        \* per requested page: the outcome of each get_page call
    heads,          \* the URLs a HEAD request was issued for, per page
    dl,             \* the download_image calls made and what they did
    followed,       \* the <<page, link>> pairs crawl recursed into
    classified,     \* per page, the list get_all_images returned
    nurl,           \* pure-function harness: the input
    nres            \* pure-function harness: the successive results

vars == <<args, site, runpc, download_path, max_depth, visited, stack, fs,
          crawled, fetched, heads, dl, followed, classified, nurl, nres>>

crawlVars == <<args, site, runpc, download_path, max_depth, visited, stack, fs,
               crawled, fetched, heads, dl, followed, classified>>

\* Largest -l of the model (besides the default)
MaxLevel == 2

\* The default of -l
DefaultLevel == 5

\* The default of self.download_path
DefaultPath == "./data/"

\* The values of -l: a negative one, 0..MaxLevel and the default
Levels == ((-1)..MaxLevel) \cup {DefaultLevel}

\* The seed URLs given on the command line
Seeds == {PA, PA \o <<"/">>,
          <<"f","t","p",":","/","/","h","/","a">>,
          <<"h","t","t","p",":","/","/","/","a">>,
          <<"h","t","t","p",":","/","/","[">>,
          <<"/","a">>}

\* -p: "" stands for an absent option (argparse gives None)
PathArgs == {"", "out"}

\* The states of the file system a run may start in
InitialFs ==
    {<<>>,
     [d \in {DefaultPath, "out"} |-> {}],
     [d \in {DefaultPath, "out"} |-> {PhotoJpg}]}

Init ==
    /\ args \in [url : Seeds, r : BOOLEAN, l : Levels, p : PathArgs]
    /\ site \in SiteNames
    /\ fs \in InitialFs
    /\ runpc = "start"
    /\ download_path = DefaultPath
    /\ max_depth = 0
    /\ visited = {}
    /\ stack = <<>>
    /\ crawled = <<>>
    /\ fetched = <<>>
    /\ heads = <<>>
    /\ dl = {}
    /\ followed = {}
    /\ classified = <<>>
    /\ nurl = <<>>
    /\ nres = <<>>

(***************************************************************************)
(* Spider.run                                                              *)
(***************************************************************************)

\* (variant: the depth of the caller is not counted up)
Call_at_depth_zero(url, depth) ==
    [url |-> url, norm |-> <<>>, depth |-> 0, pc |-> "enter", imgs |-> {}, links |-> {}]

\* A call of crawl(url, depth, max_depth) that has not yet run its first line
Call(url, depth) ==
    [url |-> url, norm |-> <<>>, depth |-> depth, pc |-> "enter", imgs |-> {}, links |-> {}]

\* (variant: -l is used whether or not -r is given)
MaxDepthOf_ignoring_r(r, l) == l

\* max_depth = 0 if not args.r else args.l
MaxDepthOf(r, l) == IF ~r THEN 0 ELSE l

\* f with key k set to v (k may be new)
Put(f, k, v) == [x \in DOMAIN f \cup {k} |-> IF x = k THEN v ELSE f[x]]

\* self.crawl(args.url, max_depth=max_depth)
StartCrawl ==
    /\ runpc' = "crawling"
    /\ max_depth' = MaxDepthOf(args.r, args.l)
    /\ stack' = <<Call(args.url, 0)>>

\* run: validate the seed, set up the download directory when -p is given,
\* and call crawl.  makeOk: whether os.makedirs succeeds (its exception is
\* not caught).
Run ==
    /\ runpc = "start"
    /\ IF ~is_valid_url(args.url)
       THEN /\ runpc' = "done"
            /\ UNCHANGED <<download_path, max_depth, stack, fs>>
       ELSE \E makeOk \in BOOLEAN :
            /\ download_path' = IF args.p # "" THEN args.p ELSE download_path
            /\ IF args.p # "" /\ args.p \notin DOMAIN fs
               THEN IF makeOk
                    THEN fs' = Put(fs, args.p, {}) /\ StartCrawl
                    ELSE /\ runpc' = "crashed"
                         /\ UNCHANGED <<fs, max_depth, stack>>
               ELSE StartCrawl /\ UNCHANGED fs
    /\ UNCHANGED <<args, site, visited, crawled, fetched, heads, dl, followed,
                   classified, nurl, nres>>

(***************************************************************************)
(* Spider.crawl, one step per call it makes                                *)
(***************************************************************************)

Top == stack[Len(stack)]

SetTop(f) == [stack EXCEPT ![Len(stack)] = f]

\* The return of the innermost crawl call; run ends when the outermost returns
Return ==
    /\ stack' = SubSeq(stack, 1, Len(stack) - 1)
    /\ runpc' = IF Len(stack) = 1 THEN "done" ELSE runpc

\* An exception that nothing catches ends the process
Crash ==
    /\ runpc' = "crashed"
    /\ UNCHANGED stack

\* (variant: the visited test is left out of the guard)
Pruned_depth_only(depth, maxd, normalized_url, seen) == depth > maxd

\* (variant: the depth test is left out of the guard)
Pruned_visited_only(depth, maxd, normalized_url, seen) == normalized_url \in seen

\* if depth > max_depth or normalized_url in self.visited: return
Pruned(depth, maxd, normalized_url, seen) ==
    depth > maxd \/ normalized_url \in seen

\* (variant: off by one, <= for <)
Recursing_inclusive(depth, maxd) == depth <= maxd

\* if depth < max_depth: (follow the links)
Recursing(depth, maxd) == depth < maxd

NoFetch == [img |-> "none", lnk |-> "none"]

\* crawl after normalized_url = self.normalize_url(url): the guard, the
\* insertion into visited and the "Crawling:" line
EnterAs(normalized_url) ==
    IF normalized_url = ValueError
    THEN Crash /\ UNCHANGED <<visited, crawled, fetched>>
    ELSE IF Pruned(Top.depth, max_depth, normalized_url, visited)
    THEN Return /\ UNCHANGED <<visited, crawled, fetched>>
    ELSE /\ visited' = visited \cup {normalized_url}
         /\ crawled' = Append(crawled, <<normalized_url, Top.depth>>)
         /\ fetched' = Put(fetched, normalized_url, NoFetch)
         /\ stack' = SetTop([Top EXCEPT !.norm = normalized_url, !.pc = "images"])
         /\ UNCHANGED runpc

\* The first lines of crawl
CrawlEnter ==
    /\ runpc = "crawling"
    /\ Top.pc = "enter"
    /\ EnterAs(normalize_url(Top.url))
    /\ UNCHANGED <<args, site, download_path, max_depth, fs, heads, dl, followed,
                   classified, nurl, nres>>

\* get_all_images when get_page gives None: return []
ImagesNotFetched(url) ==
    /\ fetched' = Put(fetched, url, [fetched[url] EXCEPT !.img = "fail"])
    /\ classified' = Put(classified, url, {})
    /\ stack' = SetTop([Top EXCEPT !.pc = "download", !.imgs = {}])
    /\ UNCHANGED <<runpc, heads>>

\* get_all_images when get_page gives a response; res is what the img loop
\* did
ImagesFetched(url, res) ==
    /\ fetched' = Put(fetched, url, [fetched[url] EXCEPT !.img = "ok"])
    /\ heads' = Put(heads, url, res.probed)
    /\ IF res.raised
       THEN Crash /\ UNCHANGED classified
       ELSE /\ classified' = Put(classified, url, res.images)
            /\ stack' = SetTop([Top EXCEPT !.pc = "download", !.imgs = res.images])
            /\ UNCHANGED runpc

\* The HEAD requests of the page answered one way or another
ImagesOfPage(url, srcs) ==
    \E answers \in [NeedsProbe(url, srcs) -> HeadResponses] :
        ImagesFetched(url, get_all_images(url, srcs, answers))

\* self.get_all_images(normalized_url): one page GET, then the img loop
GetAllImages ==
    /\ runpc = "crawling"
    /\ Top.pc = "images"
    /\ \E getOk \in BOOLEAN :
         IF ~getOk THEN ImagesNotFetched(Top.norm)
         ELSE ImagesOfPage(Top.norm, PageOf(site, Top.norm).srcs)
    /\ UNCHANGED <<args, site, download_path, max_depth, visited, fs, crawled, dl,
                   followed, nurl, nres>>

\* The images still to download after img_url was handed to download_image
RestOfImages(imgs, img_url, result) == imgs \ {img_url}

\* The effect of one download_image call, res being what it did
AfterDownload(img_url, res) ==
    /\ fs' = IF download_path \in DOMAIN fs
             THEN [fs EXCEPT ![download_path] = res.files] ELSE fs
    /\ dl' = dl \cup {[page |-> Top.norm, img |-> img_url, result |-> res.result,
                       name |-> res.name, file |-> res.file]}
    /\ stack' = SetTop([Top EXCEPT !.imgs = RestOfImages(Top.imgs, img_url, res.result)])

\* The files of the download directory as os.path.exists sees them
FilesIn(path) == IF path \in DOMAIN fs THEN fs[path] ELSE {}

\* self.download_image(img_url) for the next image of the list
DownloadImage ==
    /\ runpc = "crawling"
    /\ Top.pc = "download"
    /\ Top.imgs # {}
    /\ \E img_url \in Top.imgs, getOk \in BOOLEAN, ctype \in ContentTypes,
          write \in WriteOutcomes :
         AfterDownload(img_url,
                       download_image(img_url, getOk, ctype, write,
                                      download_path \in DOMAIN fs, FilesIn(download_path)))
    /\ UNCHANGED <<args, site, runpc, download_path, max_depth, visited, crawled,
                   fetched, heads, followed, classified, nurl, nres>>

\* get_all_links when get_page gives None: return []
LinksNotFetched(url) ==
    /\ fetched' = Put(fetched, url, [fetched[url] EXCEPT !.lnk = "fail"])
    /\ stack' = SetTop([Top EXCEPT !.pc = "recurse", !.links = {}])
    /\ UNCHANGED runpc

\* get_all_links when get_page gives a response; res is what the anchor
\* loop did
LinksFetched(url, res) ==
    /\ fetched' = Put(fetched, url, [fetched[url] EXCEPT !.lnk = "ok"])
    /\ IF res.raised
       THEN Crash
       ELSE /\ stack' = SetTop([Top EXCEPT !.pc = "recurse", !.links = res.links])
            /\ UNCHANGED runpc

\* self.get_all_links(normalized_url, normalized_url) when depth < max_depth:
\* a second page GET, then the anchor loop
GetAllLinks ==
    /\ runpc = "crawling"
    /\ Top.pc = "download"
    /\ Top.imgs = {}
    /\ Recursing(Top.depth, max_depth)
    /\ \E getOk \in BOOLEAN :
         IF ~getOk THEN LinksNotFetched(Top.norm)
         ELSE LinksFetched(Top.norm, get_all_links(PageOf(site, Top.norm).hrefs, Top.norm))
    /\ UNCHANGED <<args, site, download_path, max_depth, visited, fs, crawled, heads,
                   dl, followed, classified, nurl, nres>>

\* The end of crawl when depth < max_depth does not hold
ReturnAtDepth ==
    /\ runpc = "crawling"
    /\ Top.pc = "download"
    /\ Top.imgs = {}
    /\ ~Recursing(Top.depth, max_depth)
    /\ Return
    /\ UNCHANGED <<args, site, download_path, max_depth, visited, fs, crawled, fetched,
                   heads, dl, followed, classified, nurl, nres>>

\* (variant: the call for the link is queued behind the calls in progress
\* and the caller's loop goes on)
FollowLink_queued(link, rest) ==
    IF is_valid_url(link)
    THEN /\ stack' = <<Call(link, Top.depth + 1)>> \o rest
         /\ followed' = followed \cup {<<Top.norm, link>>}
    ELSE /\ stack' = rest
         /\ UNCHANGED followed

\* if self.is_valid_url(link): self.crawl(link, depth+1, max_depth), the
\* caller's loop having moved past link
FollowLink(link, rest) ==
    IF is_valid_url(link)
    THEN /\ stack' = Append(rest, Call(link, Top.depth + 1))
         /\ followed' = followed \cup {<<Top.norm, link>>}
    ELSE /\ stack' = rest
         /\ UNCHANGED followed

\* One iteration of the link loop
CrawlLink ==
    /\ runpc = "crawling"
    /\ Top.pc = "recurse"
    /\ Top.links # {}
    /\ \E link \in Top.links :
         FollowLink(link, SetTop([Top EXCEPT !.links = Top.links \ {link}]))
    /\ UNCHANGED <<args, site, runpc, download_path, max_depth, visited, fs, crawled,
                   fetched, heads, dl, classified, nurl, nres>>

\* The end of the link loop
ReturnAfterLinks ==
    /\ runpc = "crawling"
    /\ Top.pc = "recurse"
    /\ Top.links = {}
    /\ Return
    /\ UNCHANGED <<args, site, download_path, max_depth, visited, fs, crawled, fetched,
                   heads, dl, followed, classified, nurl, nres>>

Next ==
    \/ Run
    \/ CrawlEnter
    \/ GetAllImages
    \/ DownloadImage
    \/ GetAllLinks
    \/ ReturnAtDepth
    \/ CrawlLink
    \/ ReturnAfterLinks

Spec == Init /\ [][Next]_vars

\* The crawl is a sequential program: a step that can be taken is taken
FairSpec == Spec /\ WF_vars(Next)

(***************************************************************************)
(* normalize_url applied repeatedly to one input                           *)
(***************************************************************************)

\* Longest text after the host in the inputs of normalize_url
MaxRest == 4

RECURSIVE StringsUpTo(_, _)
StringsUpTo(chars, n) ==
    IF n = 0 THEN {<<>>}
    ELSE LET shorter == StringsUpTo(chars, n - 1)
         IN  shorter \cup {Append(t, c) : t \in shorter, c \in chars}

\* Valid URLs: http://h followed by path, ';', query and fragment characters
NormInputs == {Host \o rest : rest \in StringsUpTo({"/", "x", ";", "?", "#"}, MaxRest)}

InitNorm ==
    /\ args = [url |-> <<>>, r |-> FALSE, l |-> 0, p |-> ""]
    /\ site = "cycle"
    /\ fs = <<>>
    /\ runpc = "idle"
    /\ download_path = DefaultPath
    /\ max_depth = 0
    /\ visited = {}
    /\ stack = <<>>
    /\ crawled = <<>>
    /\ fetched = <<>>
    /\ heads = <<>>
    /\ dl = {}
    /\ followed = {}
    /\ classified = <<>>
    /\ nurl \in NormInputs
    /\ nres = <<>>

\* nres gets normalize_url of the input, then normalize_url of that result
NormalizeStep ==
    /\ runpc = "idle"
    /\ Len(nres) < 2
    /\ nres' = Append(nres, normalize_url(IF nres = <<>> THEN nurl ELSE nres[Len(nres)]))
    /\ UNCHANGED <<nurl, crawlVars>>

NextNorm == NormalizeStep

SpecNorm == InitNorm /\ [][NextNorm]_vars

(***************************************************************************)
(* Properties                                                              *)
(***************************************************************************)

\* The seeds of the model that are valid (http or https, with a host)
ValidSeeds == {PA, PA \o <<"/">>}

SeedIsValid ==
    LET parsed == urlparse(args.url)
    IN  ~parsed.err /\ parsed.scheme \in HttpSchemes /\ parsed.netloc # <<>>

AllFetchesOk ==
    /\ \A u \in DOMAIN fetched : fetched[u].img # "fail" /\ fetched[u].lnk # "fail"
    /\ \A rec \in dl : rec.result # "getfail"

CrawledUrls == {crawled[i][1] : i \in 1..Len(crawled)}

\* C1: in one run every normalized URL is processed at most once (the body of
\* crawl past the guard runs at most once per URL); for the cycle A -> B -> A
\* with maxDepth >= 2 and all fetches succeeding, A and B are each processed
\* exactly once.
C1_ProcessedAtMostOnce ==
    /\ \A i, j \in 1..Len(crawled) : crawled[i][1] = crawled[j][1] => i = j
    /\ CrawledUrls = visited
    /\ (/\ site = "cycle" /\ args.url \in ValidSeeds /\ max_depth >= 2
        /\ runpc = "done" /\ AllFetchesOk)
       => (Len(crawled) = 2 /\ CrawledUrls = {PA, PB})

\* The cycle was crawled to the end: B was processed and its link back to A
\* was handed to crawl, which pruned it
C1_Witness ==
    /\ site = "cycle" /\ max_depth >= 2 /\ runpc = "done" /\ AllFetchesOk
    /\ <<PB, PA>> \in followed
    /\ Len(crawled) = 2

\* C2: every URL is processed at a depth within 0..maxDepth, the links of a
\* page processed at depth maxDepth are never extracted or followed, and the
\* chain A->B->C->D with maxDepth = 1 and all fetches succeeding ends with
\* visited = {A, B}.
C2_DepthBound ==
    /\ \A i \in 1..Len(crawled) :
         /\ 0 <= crawled[i][2] /\ crawled[i][2] <= max_depth
         /\ crawled[i][2] = max_depth =>
              /\ fetched[crawled[i][1]].lnk = "none"
              /\ \A pair \in followed : pair[1] # crawled[i][1]
    /\ (/\ site = "chain" /\ args.url \in ValidSeeds /\ max_depth = 1
        /\ runpc = "done" /\ AllFetchesOk)
       => visited = {PA, PB}

C2_Witness ==
    /\ site = "chain" /\ max_depth = 1 /\ runpc = "done" /\ AllFetchesOk
    /\ visited = {PA, PB}
    /\ fetched[PB].img = "ok"

\* C3: for a valid seed, whatever the pages contain and whatever each GET,
\* HEAD and file write does, no failure propagates out of crawl.
C3_NoFailureLeavesCrawl ==
    ~(runpc = "crashed" /\ stack # <<>>)

\* C4: if a fetch of a page fails while crawl processes it, no image of that
\* page is downloaded, no link of that page is followed, and the URL stays
\* in visited.
C4_FailedFetchEndsBranch ==
    \A u \in DOMAIN fetched :
        (fetched[u].img = "fail" \/ fetched[u].lnk = "fail")
        => /\ \A rec \in dl : rec.page # u
           /\ \A pair \in followed : pair[1] # u
           /\ u \in visited

\* The pages whose image loop is over
ImagesHandled ==
    {u \in DOMAIN classified :
        \A k \in 1..Len(stack) : stack[k].norm = u => stack[k].pc = "recurse"}

\* C5: when the probe, the fetch or the write of one image of a page fails,
\* every other image of the page that is classified as an image and whose
\* own fetch succeeds (and whose own write does not fail) is downloaded, and
\* link extraction for the page takes place when depth < maxDepth.
C5_ImageFailuresIsolated ==
    \A u \in ImagesHandled :
        /\ \A img \in classified[u] :
             (\E other \in dl : other.page = u /\ other.img # img /\ other.result # "ok")
             => \E rec \in dl :
                  /\ rec.page = u /\ rec.img = img
                  /\ rec.result \notin {"getfail", "openfail", "writefail"} => rec.result = "ok"
        /\ (runpc # "crashed" /\ \E i \in 1..Len(crawled) :
                crawled[i][1] = u /\ crawled[i][2] < max_depth)
           => fetched[u].lnk # "none"

\* name with the suffix _k put before its extension
Suffixed(name, k) == splitext(name).root \o <<"_">> \o Str(k) \o splitext(name).ext

\* C6: each successful download_image writes to a path that did not exist in
\* the directory just before, the directory gains exactly that one file, and
\* when the derived name is taken the path is name_k.ext for the smallest
\* k >= 1 whose path is free.
C6_NoOverwrite ==
    [][\A rec \in dl' \ dl :
         rec.result = "ok" =>
           LET before == fs[download_path]
               after  == fs'[download_path]
           IN  /\ rec.file \notin before
               /\ after = before \cup {rec.file}
               /\ Cardinality(after) = Cardinality(before) + 1
               /\ IF rec.name \notin before THEN rec.file = rec.name
                  ELSE \E k \in 1..(Cardinality(before) + 1) :
                         /\ rec.file = Suffixed(rec.name, k)
                         /\ \A j \in 1..(k - 1) : Suffixed(rec.name, j) \in before]_vars

\* Two URLs with base name photo.jpg were downloaded as photo.jpg and
\* photo_1.jpg
C6_Witness ==
    \E r1, r2 \in dl :
        /\ r1.result = "ok" /\ r2.result = "ok"
        /\ r1.img # r2.img
        /\ r1.name = PhotoJpg /\ r2.name = PhotoJpg
        /\ r1.file = PhotoJpg
        /\ r2.file = <<"p","h","o","t","o","_","1",".","j","p","g">>

\* C7: without -r the run uses maxDepth = 0 whatever -l is: only the seed is
\* processed, its images are handled, no link is extracted or followed and
\* visited ends as exactly the normalized seed; with -r, maxDepth is -l.
C7_RecursiveFlag ==
    (args.url \in ValidSeeds /\ runpc \in {"crawling", "done"})
    => /\ args.r => max_depth = args.l
       /\ ~args.r =>
            /\ max_depth = 0
            /\ visited \subseteq {normalize_url(args.url)}
            /\ followed = {}
            /\ \A u \in DOMAIN fetched : fetched[u].lnk = "none"
            /\ runpc = "done" =>
                 /\ visited = {normalize_url(args.url)}
                 /\ fetched[normalize_url(args.url)].img # "none"

C7_Witness ==
    /\ ~args.r /\ args.l = DefaultLevel /\ site = "chain" /\ runpc = "done"
    /\ visited = {PA}
    /\ fetched[PA].img = "ok"

\* C8: with an invalid seed (scheme not http/https, or empty host) run ends
\* without crawling: visited stays empty, no request is issued, no directory
\* is created and no file is written.
C8_InvalidSeedNoCrawl ==
    ~SeedIsValid
    => /\ runpc \in {"start", "done"}
       /\ visited = {} /\ stack = <<>> /\ crawled = <<>>
       /\ fetched = <<>> /\ heads = <<>> /\ dl = {}
       /\ fs \in InitialFs

C8_Witness ==
    /\ ~SeedIsValid /\ runpc = "done" /\ args.p = "out" /\ fs = <<>>
    /\ urlparse(args.url).scheme = <<"f","t","p">>

\* C9: in every run with a valid seed the download directory exists at the
\* moment crawl starts, with -p and with the default ./data/.
C9_DirectoryExists ==
    runpc = "crawling" => download_path \in DOMAIN fs

\* C10: normalize_url is idempotent on every valid URL:
\* normalize_url(normalize_url(u)) = normalize_url(u).
C10_Idempotent ==
    Len(nres) = 2 => nres[2] = nres[1]

(***************************************************************************)
(* normalize_url applied to one URL and to the forms of it that differ     *)
(* only in a trailing slash of the path or in the fragment                 *)
(***************************************************************************)

\* The part of a URL before its query and fragment
UpToPath(url) == Before(Before(url, "#"), "?")

\* The URL with one more slash at the end of its path
WithTrailingSlash(url) == UpToPath(url) \o <<"/">> \o Drop(url, Len(UpToPath(url)) + 1)

\* The URL with its fragment replaced by another one
WithFragment(url) == Before(url, "#") \o <<"#", "f">>

\* nres gets normalize_url of the input and of its two other forms
NormalizeForms ==
    /\ runpc = "idle"
    /\ nres = <<>>
    /\ nres' = <<normalize_url(nurl), normalize_url(WithTrailingSlash(nurl)),
                 normalize_url(WithFragment(nurl))>>
    /\ UNCHANGED <<nurl, crawlVars>>

NextForms == NormalizeForms

SpecForms == InitNorm /\ [][NextForms]_vars

\* C11: two URLs that differ only in a trailing slash of the path or only in
\* the fragment have the same normalize_url value.
C11_SlashAndFragmentIgnored ==
    Len(nres) = 3 => nres[2] = nres[1] /\ nres[3] = nres[1]

(***************************************************************************)
(* get_all_links: what the result is made of                               *)
(***************************************************************************)

\* The stripped hrefs that are to contribute nothing
SkippedHref(href) ==
    href = <<>> \/ StartsWith(href, <<"#">>) \/ StartsWith(href, Javascript)

\* link is what some anchor of the page gives whose href is not a skipped one
FromKeptAnchor(site_name, page, link) ==
    \E i \in 1..Len(PageOf(site_name, page).hrefs) :
        /\ ~SkippedHref(Strip(PageOf(site_name, page).hrefs[i]))
        /\ LinkOf(page, PageOf(site_name, page).hrefs[i]) = link

\* C12: every element of the list get_all_links returned is a valid URL that
\* comes from an anchor whose href is neither empty after trimming nor starts
\* with '#' or 'javascript:'.
C12_LinksOnlyFromKeptAnchors ==
    \A k \in 1..Len(stack) :
        stack[k].pc = "recurse" =>
            \A link \in stack[k].links :
                is_valid_url(link) /\ FromKeptAnchor(site, stack[k].norm, link)

\* The page has an anchor whose href urljoin or urlparse rejects
HasMalformedHref(site_name, page) ==
    \E i \in 1..Len(PageOf(site_name, page).hrefs) :
        LinkOf(page, PageOf(site_name, page).hrefs[i]) = ValueError

\* C13: when get_all_links has fetched a page holding a malformed href, no
\* error leaves get_all_links: the run does not end in the call that
\* extracted the links.
C13_MalformedHrefSkipped ==
    (/\ stack # <<>>
     /\ Top.norm \in DOMAIN fetched
     /\ fetched[Top.norm].lnk = "ok"
     /\ HasMalformedHref(site, Top.norm))
        => runpc # "crashed"

(***************************************************************************)
(* get_all_images applied to a page with one img and one HEAD answer       *)
(***************************************************************************)

CT_webp == <<"i","m","a","g","e","/","w","e","b","p">>

\* The Content-Type headers of the HEAD answers
ProbeTypes == ContentTypes \cup {CT_png, CT_gif, CT_bmp, CT_webp}

ProbeAnswers ==
    {[exc |-> TRUE, status |-> 0, ctype |-> <<>>]}
    \cup [exc : {FALSE}, status : {200, 404}, ctype : ProbeTypes]

\* The src attributes of the img
ProbeSrcs ==
    {<<"/","x",".","j","p","g">>,
     <<"/","x",".","j","p","e","g">>,
     <<"/","x",".","p","n","g">>,
     <<"/","x",".","g","i","f">>,
     <<"/","x",".","b","m","p">>,
     <<"/","x",".","J","P","G">>,
     <<"/","x",".","P","n","g","?","q">>,
     <<"/","x",".","j","p","g",";","p">>,
     <<"/","x",".","j","p","g","x">>,
     <<"/","x">>,
     <<"/","e","/">>,
     <<"/","x",".","t","x","t">>,
     <<"/","x","?","f","=",".","j","p","g">>,
     <<"/","j","p","g">>}

InitClassify ==
    /\ args = [url |-> <<>>, r |-> FALSE, l |-> 0, p |-> ""]
    /\ site = "gallery"
    /\ fs = <<>>
    /\ runpc = "idle"
    /\ download_path = DefaultPath
    /\ max_depth = 0
    /\ visited = {}
    /\ stack = <<>>
    /\ crawled = <<>>
    /\ fetched = <<>>
    /\ heads = <<>>
    /\ dl = {}
    /\ followed = {}
    /\ classified = <<>>
    /\ nurl \in [src : ProbeSrcs, head : ProbeAnswers]
    /\ nres = <<>>

\* nres gets what get_all_images does on the page PA holding the one img
ClassifyStep ==
    /\ runpc = "idle"
    /\ nres = <<>>
    /\ nres' = <<get_all_images(PA, <<nurl.src>>, <<nurl.head>>)>>
    /\ UNCHANGED <<nurl, crawlVars>>

NextClassify == ClassifyStep

SpecClassify == InitClassify /\ [][NextClassify]_vars

\* The lower-cased path of the URL ends with one of the five extensions
EndsWithImageExt(absolute_url) ==
    \E ext \in {<<".","j","p","g">>, <<".","j","p","e","g">>, <<".","p","n","g">>, <<".","g","i","f">>, <<".","b","m","p">>} :
        EndsWith(Lower(urlparse(absolute_url).path), ext)

\* The HEAD answer is a 200 whose Content-Type holds one of the four types
AnswerIsImage(head) ==
    /\ ~head.exc
    /\ head.status = 200
    /\ \E type \in {<<"i","m","a","g","e","/","j","p","e","g">>, <<"i","m","a","g","e","/","p","n","g">>, <<"i","m","a","g","e","/","g","i","f">>, <<"i","m","a","g","e","/","b","m","p">>} :
        IsSubstring(type, Lower(head.ctype))

\* The classification the claim gives for candidate absolute_url
ClassifiedAsClaimed(absolute_url, head, out) ==
    /\ ~out.raised
    /\ EndsWithImageExt(absolute_url) =>
           out.nheads = 0 /\ out.probed = {} /\ out.images = {absolute_url}
    /\ ~EndsWithImageExt(absolute_url) =>
           /\ out.nheads = 1
           /\ out.probed = {absolute_url}
           /\ out.images = IF AnswerIsImage(head) THEN {absolute_url} ELSE {}

\* C14: a candidate whose lower-cased path ends with an image extension is an
\* image and no HEAD request is issued; any other candidate gets exactly one
\* HEAD request and is an image exactly when the answer is a 200 whose
\* Content-Type, case-insensitively, holds one of the four image types; a
\* failed HEAD request makes it no image and raises nothing.
C14_ClassificationOrder ==
    Len(nres) = 1 => ClassifiedAsClaimed(urljoin(PA, nurl.src), nurl.head, nres[1])

\* An img without extension is classified by an upper-case Content-Type
C14_Witness ==
    /\ Len(nres) = 1
    /\ nurl.src = <<"/", "x">>
    /\ nurl.head = [exc |-> FALSE, status |-> 200, ctype |-> CT_PNG_upper]
    /\ nres[1].nheads = 1
    /\ nres[1].images = {Host \o <<"/", "x">>}

\* The last path segment of the image URL is empty or blank
BlankFileName(img_url) ==
    ~urlparse(img_url).err /\ Strip(basename(urlparse(img_url).path)) = <<>>

\* C15: a download_image call for a URL with a blank last path segment whose
\* GET succeeded gets as far as writing a file, under a synthesized name
\* that starts with image_.
C15_BlankNameSynthesized ==
    \A rec \in dl :
        (BlankFileName(rec.img) /\ rec.result # "getfail") =>
            /\ rec.result \in {"ok", "openfail", "writefail"}
            /\ rec.result = "ok" => StartsWith(rec.file, <<"i","m","a","g","e","_">>)

\* The innermost crawl call is at its first line with a depth beyond
\* max_depth or a URL whose normalized form is in visited
PrunedCall ==
    /\ runpc = "crawling"
    /\ Top.pc = "enter"
    /\ (Top.depth > max_depth \/ normalize_url(Top.url) \in visited)

\* C16: a crawl call with depth > maxDepth or with an already visited
\* normalized URL returns at once: its step issues no GET and no HEAD and
\* leaves visited, the "Crawling:" log and the download directory unchanged.
C16_PrunedCallDoesNothing ==
    [][PrunedCall =>
          /\ stack' = SubSeq(stack, 1, Len(stack) - 1)
          /\ fetched' = fetched
          /\ heads' = heads
          /\ dl' = dl
          /\ visited' = visited
          /\ crawled' = crawled
          /\ fs' = fs]_vars

\* On the diamond both A and B recursed into C: one of the two calls found C
\* in visited and returned
C16_Witness ==
    /\ site = "diamond" /\ runpc = "done" /\ AllFetchesOk
    /\ <<PA, PC>> \in followed
    /\ <<PB, PC>> \in followed
    /\ Cardinality({i \in 1..Len(crawled) : crawled[i][1] = PC}) = 1

\* C17: the page of a processed URL is requested with at most one page GET:
\* get_all_images and get_all_links never both issue one for it.
C17_OnePageGet ==
    \A u \in DOMAIN fetched : fetched[u].img = "none" \/ fetched[u].lnk = "none"

\* An absolute URL with scheme http or https and a host
HttpUrl(url) ==
    /\ ~urlparse(url).err
    /\ urlparse(url).scheme \in {<<"h","t","t","p">>, <<"h","t","t","p","s">>}
    /\ urlparse(url).netloc # <<>>

\* C18: given a valid seed, every URL a page GET was issued for, every
\* element of visited and every link crawl recursed into is a valid URL: an
\* invalid link is skipped and never enters visited.
C18_OnlyValidUrls ==
    SeedIsValid =>
        /\ \A u \in visited \cup DOMAIN fetched : HttpUrl(u)
        /\ \A pair \in followed : HttpUrl(pair[2])

\* Page A of site forms, with an ftp: and an m: link among its anchors, was
\* crawled to the end and only A, B and C were processed
C18_Witness ==
    /\ site = "forms" /\ runpc = "done" /\ AllFetchesOk /\ max_depth = 1
    /\ visited = {PA, PB, PC}
    /\ fetched[PA].lnk = "ok"

\* Every crawl call but the innermost is in its link loop, waiting for the
\* call it made for one of its links, which is the next call of the stack
CallsNested ==
    \A k \in 1..(Len(stack) - 1) :
        /\ stack[k].pc = "recurse"
        /\ stack[k + 1].depth = stack[k].depth + 1
        /\ <<stack[k].norm, stack[k + 1].url>> \in followed

\* A download_image call is made for the page of the innermost call, before
\* the links of that page are extracted or followed
DownloadsBeforeLinks ==
    dl' # dl =>
        /\ \A rec \in dl' \ dl : rec.page = Top.norm
        /\ fetched[Top.norm].lnk = "none"
        /\ \A pair \in followed' : pair[1] # Top.norm

\* crawl recurses into a link of the page of the innermost call only: the
\* calls for the links followed before have returned, and the new call is
\* the innermost one of the next state
ChildAfterSiblings ==
    \A pair \in followed' \ followed :
        /\ pair[1] = Top.norm
        /\ Len(stack') = Len(stack) + 1
        /\ stack'[Len(stack')].url = pair[2]
        /\ stack'[Len(stack')].pc = "enter"

\* C19: the traversal is depth-first and strictly nested: the image downloads
\* of a page all come before any of its links is crawled, and the crawl of one
\* link, with every page beneath it, is over before the crawl of the next
\* link of the same page begins.
C19_DepthFirstNested ==
    [](CallsNested) /\ [][DownloadsBeforeLinks /\ ChildAfterSiblings]_vars

\* On the diamond the call for the second link of A has begun, the call for
\* the first having returned with the pages beneath it processed
C19_Witness ==
    /\ site = "diamond" /\ runpc = "crawling" /\ max_depth = 2
    /\ Len(stack) = 2
    /\ stack[1].norm = PA /\ stack[1].links = {}
    /\ stack[2].url = PB /\ stack[2].pc = "enter"
    /\ {<<PA, PB>>, <<PA, PC>>, <<PC, PD>>} \subseteq followed
    /\ visited = {PA, PC, PD}

(***************************************************************************)
(* The link graph of a site and the depths of the crawl                    *)
(***************************************************************************)

\* The pages one link away from page u: the normalized forms of the valid
\* links get_all_links returns for it
LinkedFrom(site_name, u) ==
    {normalize_url(link) :
        link \in {x \in get_all_links(PageOf(site_name, u).hrefs, u).links : is_valid_url(x)}}

\* The pages a chain of at most n links leads to from page u
RECURSIVE WithinHops(_, _, _)
WithinHops(site_name, u, n) ==
    IF n < 0 THEN {}
    ELSE IF n = 0 THEN {u}
    ELSE LET near == WithinHops(site_name, u, n - 1)
         IN  near \cup UNION {LinkedFrom(site_name, v) : v \in near}

\* The smallest number of link-hops from page u to page v (v within reach)
Hops(site_name, u, v) ==
    CHOOSE n \in 0..DefaultLevel :
        /\ v \in WithinHops(site_name, u, n)
        /\ v \notin WithinHops(site_name, u, n - 1)

\* A run with a valid seed is over and every fetch of it succeeded
CrawlOverAllOk == runpc = "done" /\ SeedIsValid /\ AllFetchesOk

\* The statement as first made: when every fetch succeeds every URL within
\* maxDepth link-hops of the seed is processed, each at a depth equal to its
\* smallest number of link-hops from the seed.
C20_DepthIsHopCount ==
    CrawlOverAllOk =>
        /\ WithinHops(site, normalize_url(args.url), max_depth) \subseteq visited
        /\ \A i \in 1..Len(crawled) :
               crawled[i][2] = Hops(site, normalize_url(args.url), crawled[i][1])

\* C20: when every fetch succeeds, the seed is processed at depth 0, every
\* other URL is processed at a depth one more than that of a page processed
\* before it that links to it, so at a depth that is at least its smallest
\* number of link-hops from the seed and at most maxDepth, and every URL
\* linked from a page processed at a depth below maxDepth ends in visited.
C20_DepthIsChainLength ==
    CrawlOverAllOk =>
        \A i \in 1..Len(crawled) :
            /\ i = 1 => crawled[i] = <<normalize_url(args.url), 0>>
            /\ i > 1 => \E j \in 1..(i - 1) :
                            /\ crawled[j][2] + 1 = crawled[i][2]
                            /\ crawled[i][1] \in LinkedFrom(site, crawled[j][1])
            /\ crawled[i][2] >= Hops(site, normalize_url(args.url), crawled[i][1])
            /\ crawled[i][2] <= max_depth
            /\ crawled[i][2] < max_depth => LinkedFrom(site, crawled[i][1]) \subseteq visited

\* On the diamond with maxDepth 2, C was processed at depth 2 beneath B though
\* A links to it, and D, two links from A, was never processed
C20_Witness ==
    /\ site = "diamond" /\ CrawlOverAllOk /\ max_depth = 2
    /\ crawled = <<<<PA, 0>>, <<PB, 1>>, <<PC, 2>>>>
    /\ PD \in WithinHops(site, PA, 2)
    /\ PD \notin visited
====
